---- MODULE Spec2Model ----
(***************************************************************************)
(* A model of burp_log_parser.py: decode_burp_log as a sequential state    *)
(* machine (one action per block of the function), with the library calls  *)
(* it relies on (base64.b64decode, bytes.decode('utf-8', 'ignore'),        *)
(* str.split / str.strip, re.search) written out as operators.             *)
(*                                                                         *)
(* Strings are sequences of Unicode code points; bytes are sequences of    *)
(* numbers in 0..255.  Python's None is the one-element sequence <<-1>>,   *)
(* which is no string.                                                     *)
(***************************************************************************)
EXTENDS Integers, Sequences, FiniteSets, TLC

(* ------------------------------------------------------------------ *)
(* Bounds                                                              *)
(* ------------------------------------------------------------------ *)

\* The largest number of entries a parsed log file holds.
MaxEntries == 2

(* ------------------------------------------------------------------ *)
(* Values                                                              *)
(* ------------------------------------------------------------------ *)

None == <<-1>>

\* Python truthiness of an optional string: neither None nor "".
Truthy(s) == s # None /\ s # <<>>

\* Code points used below: ' ' 32  '(' 40  ')' 41  ',' 44  '0' 48  '2' 50
\* '4' 52  '=' 61  'A' 65  'B' 66  'I' 73  'Q' 81  'U' 85  U+00E9 233.
PAD == 61
COMMA == 44
SPACE == 32
LPAREN == 40
RPAREN == 41

(* ------------------------------------------------------------------ *)
(* base64.b64decode(s) for a str s (validate=False)                    *)
(* ------------------------------------------------------------------ *)

\* binascii's table_a2b_base64: the 6-bit value of a character of the
\* standard alphabet, 64 for any other character.
B64Value(c) ==
    IF c >= 65 /\ c <= 90 THEN c - 65
    ELSE IF c >= 97 /\ c <= 122 THEN c - 71
    ELSE IF c >= 48 /\ c <= 57 THEN c + 4
    ELSE IF c = 43 THEN 62
    ELSE IF c = 47 THEN 63
    ELSE 64

\* binascii.a2b_base64 in its lenient mode, from position i on: characters
\* outside the alphabet are skipped, a pad sequence that completes a quad
\* ends the parse, and data left in an incomplete quad is an error.
RECURSIVE A2B(_, _, _, _, _, _)
A2B(s, i, quad_pos, leftchar, pads, out) ==
    IF i > Len(s)
    THEN [ok |-> quad_pos = 0, bytes |-> out]
    ELSE LET c == s[i] IN
         IF c = PAD
         THEN IF quad_pos >= 2 /\ quad_pos + pads + 1 >= 4
              THEN [ok |-> TRUE, bytes |-> out]
              ELSE A2B(s, i + 1, quad_pos, leftchar,
                       IF quad_pos >= 2 THEN pads + 1 ELSE pads, out)
         ELSE LET v == B64Value(c) IN
              IF v >= 64
              THEN A2B(s, i + 1, quad_pos, leftchar, pads, out)
              ELSE IF quad_pos = 0
                   THEN A2B(s, i + 1, 1, v, 0, out)
              ELSE IF quad_pos = 1
                   THEN A2B(s, i + 1, 2, v % 16, 0,
                            Append(out, (leftchar * 4 + v \div 16) % 256))
              ELSE IF quad_pos = 2
                   THEN A2B(s, i + 1, 3, v % 4, 0,
                            Append(out, (leftchar * 16 + v \div 4) % 256))
              ELSE A2B(s, i + 1, 0, 0, 0,
                       Append(out, (leftchar * 64 + v) % 256))

\* A str argument is first encoded as ASCII.
IsAscii(s) == \A i \in 1..Len(s) : s[i] < 128

\* base64.b64decode(s): "ValueError" for a str with a non-ASCII character
\* (not a binascii.Error), "binascii.Error" for bad padding, else the bytes.
B64Decode(s) ==
    IF ~IsAscii(s)
    THEN [exc |-> "ValueError", bytes |-> <<>>]
    ELSE LET r == A2B(s, 1, 0, 0, 0, <<>>) IN
         IF r.ok THEN [exc |-> "", bytes |-> r.bytes]
         ELSE [exc |-> "binascii.Error", bytes |-> <<>>]

(* ------------------------------------------------------------------ *)
(* bytes.decode('utf-8', 'ignore')                                     *)
(* ------------------------------------------------------------------ *)

IsCont(b) == b >= 128 /\ b <= 191

\* The number of bytes of the UTF-8 sequence a lead byte announces, 0 for
\* a byte that can start none.
Utf8Need(b) ==
    IF b < 128 THEN 1
    ELSE IF b >= 194 /\ b <= 223 THEN 2
    ELSE IF b >= 224 /\ b <= 239 THEN 3
    ELSE IF b >= 240 /\ b <= 244 THEN 4
    ELSE 0

\* Whether b may follow lead byte b0 as its first continuation byte (the
\* ranges that exclude overlong forms, surrogates and values past U+10FFFF).
Utf8SecondOk(b0, b) ==
    IF b0 = 224 THEN b >= 160 /\ b <= 191
    ELSE IF b0 = 237 THEN b >= 128 /\ b <= 159
    ELSE IF b0 = 240 THEN b >= 144 /\ b <= 191
    ELSE IF b0 = 244 THEN b >= 128 /\ b <= 143
    ELSE IsCont(b)

\* How many bytes after the lead byte at i are valid continuation bytes of
\* its sequence, counting up to `need - 1` and stopping at the end of data.
RECURSIVE Utf8Good(_, _, _, _)
Utf8Good(bs, i, k, need) ==
    IF k >= need - 1 \/ i + k + 1 > Len(bs) THEN k
    ELSE IF (IF k = 0 THEN Utf8SecondOk(bs[i], bs[i + 1])
                      ELSE IsCont(bs[i + k + 1]))
         THEN Utf8Good(bs, i, k + 1, need)
         ELSE k

Utf8CodePoint(bs, i, need) ==
    IF need = 1 THEN bs[i]
    ELSE IF need = 2 THEN (bs[i] - 192) * 64 + (bs[i + 1] - 128)
    ELSE IF need = 3
         THEN (bs[i] - 224) * 4096 + (bs[i + 1] - 128) * 64 + (bs[i + 2] - 128)
    ELSE (bs[i] - 240) * 262144 + (bs[i + 1] - 128) * 4096
         + (bs[i + 2] - 128) * 64 + (bs[i + 3] - 128)

\* The decoder with the 'ignore' error handler: a complete sequence gives
\* its code point; an invalid start byte, a sequence cut by an invalid
\* continuation byte, or one cut by the end of data is dropped.
RECURSIVE Utf8Ignore(_, _)
Utf8Ignore(bs, i) ==
    IF i > Len(bs) THEN <<>>
    ELSE LET need == Utf8Need(bs[i]) IN
         IF need = 0 THEN Utf8Ignore(bs, i + 1)
         ELSE LET good == Utf8Good(bs, i, 0, need) IN
              IF good = need - 1
              THEN <<Utf8CodePoint(bs, i, need)>> \o Utf8Ignore(bs, i + need)
              ELSE Utf8Ignore(bs, i + good + 1)

(* ------------------------------------------------------------------ *)
(* str.split(','), str.strip(), re.search                              *)
(* ------------------------------------------------------------------ *)

\* s.split(','): the pieces between the commas, empty pieces included.
RECURSIVE Split(_, _, _)
Split(s, i, piece) ==
    IF i > Len(s) THEN <<piece>>
    ELSE IF s[i] = COMMA THEN <<piece>> \o Split(s, i + 1, <<>>)
    ELSE Split(s, i + 1, Append(piece, s[i]))

IsSpace(c) == c = SPACE \/ (c >= 9 /\ c <= 13)

\* s.strip(): leading and trailing whitespace removed.
RECURSIVE Strip(_)
Strip(s) ==
    IF s = <<>> THEN s
    ELSE IF IsSpace(s[1]) THEN Strip(Tail(s))
    ELSE IF IsSpace(s[Len(s)]) THEN Strip(SubSeq(s, 1, Len(s) - 1))
    ELSE s

\* The patterns of the model are literal text, possibly with parentheses.
\* re.compile raises re.error for a pattern whose parentheses do not
\* balance ("missing )", "unbalanced parenthesis").
RECURSIVE ParenDepth(_, _, _)
ParenDepth(p, i, depth) ==
    IF depth < 0 THEN depth
    ELSE IF i > Len(p) THEN depth
    ELSE IF p[i] = LPAREN THEN ParenDepth(p, i + 1, depth + 1)
    ELSE IF p[i] = RPAREN THEN ParenDepth(p, i + 1, depth - 1)
    ELSE ParenDepth(p, i + 1, depth)

ReError(p) == ParenDepth(p, 1, 0) # 0

\* re.search(p, text) for a pattern without metacharacters: p occurs
\* somewhere in text (the empty pattern occurs everywhere).
ReSearch(p, text) ==
    \E k \in 0..(Len(text) - Len(p)) : SubSeq(text, k + 1, k + Len(p)) = p

\* A variant of AnySearch that builds the list of matches before any():
\* every pattern is compiled, whether or not an earlier one matches.
AnySearch_Eager(patterns, i, text) ==
    IF \E k \in i..Len(patterns) : ReError(Strip(patterns[k])) THEN "re.error"
    ELSE IF \E k \in i..Len(patterns) : ReSearch(Strip(patterns[k]), text)
         THEN "True"
    ELSE "False"

\* any(re.search(pattern.strip(), text) for pattern in patterns): the
\* patterns are tried in order; the first that matches ends the scan with
\* True, and one that does not compile raises when the scan reaches it.
RECURSIVE AnySearch(_, _, _)
AnySearch(patterns, i, text) ==
    IF i > Len(patterns) THEN "False"
    ELSE LET p == Strip(patterns[i]) IN
         IF ReError(p) THEN "re.error"
         ELSE IF ReSearch(p, text) THEN "True"
         ELSE AnySearch(patterns, i + 1, text)

(* ------------------------------------------------------------------ *)
(* Inputs: command-line arguments and log files                        *)
(* ------------------------------------------------------------------ *)

S200 == <<50, 48, 48>>            \* "200"
S404 == <<52, 48, 52>>            \* "404"
B64_A == <<81, 81, 61, 61>>       \* "QQ==", base64 of "A"
B64_AB == <<81, 85, 73, 61>>      \* "QUI=", base64 of "AB"
PLAIN_B == <<66>>                 \* "B": one data character, no base64
NON_ASCII == <<233>>              \* U+00E9: no ASCII string
PAD_ONLY == <<61>>                \* "=": decodes to no bytes at all
PAT_B == <<66>>                   \* "B"
PAT_A_BAD == <<65, 44, 32, 40>>   \* "A, (": a literal, then an invalid pattern
PAT_BAD_A == <<40, 44, 65>>       \* "(,A": an invalid pattern first

\* --status_code, --filter_response, --negative_filter_response (None when
\* the option is not given, "" when it is given empty), --response_only,
\* --json_output.
StatusArgs == {None, S200}
IncludeArgs == {None, PAT_B, PAT_A_BAD}
ExcludeArgs == {None, <<>>, PAT_B, PAT_BAD_A}

Item(status, request, response) ==
    [Status |-> status, Request |-> request, Response |-> response]

\* What one <item> of an XML export can hold: an element without text, or
\* no element at all, gives None.
XmlItems ==
    { Item(S200, B64_A, B64_A), Item(S200, PLAIN_B, B64_AB),
      Item(S200, B64_A, None), Item(S200, None, B64_A),
      Item(S200, B64_A, NON_ASCII), Item(S200, B64_A, PAD_ONLY),
      Item(S404, B64_A, PLAIN_B), Item(S404, NON_ASCII, None) }

\* What one row of a CSV export can hold: an empty column gives "".
CsvItems == XmlItems \cup { Item(S200, <<>>, <<>>) }

\* The entries a loader returns for a file of the given items, in file
\* order; the ID is the position in the file.
Entries(items) ==
    [i \in 1..Len(items) |->
        [ID |-> i - 1, Status |-> items[i].Status,
         Request |-> items[i].Request, Response |-> items[i].Response]]

Files(itemSet) == UNION {[1..n -> itemSet] : n \in 0..MaxEntries}

(* ------------------------------------------------------------------ *)
(* State                                                               *)
(* ------------------------------------------------------------------ *)

VARIABLES
    filter_status_code,        \* the arguments of decode_burp_log
    filter_response,
    negative_filter_response,
    response_only,
    json_output,
    raw_entries,               \* the entries the loader returned
    idx,                       \* the position of `row` in raw_entries
    response,                  \* the loop's locals
    decoded_request,
    log_entries,               \* the entries collected for the JSON array
    stdout,                    \* what was printed, in order
    stderr,
    exit_code,                 \* -1 while the process runs
    pc                         \* the block of decode_burp_log to run next

args == <<filter_status_code, filter_response, negative_filter_response,
          response_only, json_output>>
vars == <<filter_status_code, filter_response, negative_filter_response,
          response_only, json_output, raw_entries, idx, response,
          decoded_request, log_entries, stdout, stderr, exit_code, pc>>

row == raw_entries[idx]

\* One print call (or one group of labelled lines) about entry `r`.
Out(kind, r, value) == [kind |-> kind, row |-> r, value |-> value]

Init ==
    /\ filter_status_code \in StatusArgs
    /\ filter_response \in IncludeArgs
    /\ negative_filter_response \in ExcludeArgs
    /\ response_only \in BOOLEAN
    /\ json_output \in BOOLEAN
    /\ raw_entries = <<>>
    /\ idx = 0
    /\ response = None
    /\ decoded_request = None
    /\ log_entries = <<>>
    /\ stdout = <<>>
    /\ stderr = <<>>
    /\ exit_code = -1
    /\ pc = "detect"

(* ------------------------------------------------------------------ *)
(* The conditions and conversions of decode_burp_log                   *)
(* ------------------------------------------------------------------ *)

\* A variant of StatusSkips with the comparison turned around.
StatusSkips_Inverted(filter, status) == Truthy(filter) /\ status = filter

\* if filter_status_code and row.get('Status code') != filter_status_code
StatusSkips(filter, status) == Truthy(filter) /\ status # filter

\* A variant of HasBody that tests for None instead of truthiness.
HasBody_NotNone(raw) == raw # None

\* if 'Response' in row and row['Response'] / the same for 'Request'
HasBody(raw) == Truthy(raw)

\* try: base64.b64decode(raw).decode('utf-8', 'ignore')
\* except (base64.binascii.Error, TypeError): raw
\* Any other exception leaves the try statement.
DecodeBody(raw) ==
    LET r == B64Decode(raw) IN
    IF r.exc = "" THEN [exc |-> "", text |-> Utf8Ignore(r.bytes, 1)]
    ELSE IF r.exc = "binascii.Error" THEN [exc |-> "", text |-> raw]
    ELSE [exc |-> r.exc, text |-> None]

\* if filter_response: ... if not any(...): continue
\* "skip", "pass" or the exception raised
IncludeOutcome(filter, text) ==
    IF ~Truthy(filter) THEN "pass"
    ELSE LET found == AnySearch(Split(filter, 1, <<>>), 1, text) IN
         IF found = "re.error" THEN found
         ELSE IF found = "True" THEN "pass" ELSE "skip"

\* A variant of ExcludeOutcome that keeps the include filter's sense.
ExcludeOutcome_AsInclude(filter, text) == IncludeOutcome(filter, text)

\* if negative_filter_response: ... if any(...): continue
ExcludeOutcome(filter, text) ==
    IF ~Truthy(filter) THEN "pass"
    ELSE LET found == AnySearch(Split(filter, 1, <<>>), 1, text) IN
         IF found = "re.error" THEN found
         ELSE IF found = "True" THEN "skip" ELSE "pass"

\* A variant of LogEntry that stores the request under both body keys.
LogEntry_RequestTwice(r, request, resp) ==
    [ID |-> r.ID, StatusCode |-> r.Status,
     DecodedRequest |-> request, DecodedResponse |-> request]

\* The dictionary appended to log_entries.
LogEntry(r, request, resp) ==
    [ID |-> r.ID, StatusCode |-> r.Status,
     DecodedRequest |-> request, DecodedResponse |-> resp]

\* The print calls of the response-only branch.
ResponseOnlyOutput(i, resp) ==
    (IF Truthy(resp) THEN <<Out("response", i, resp)>> ELSE <<>>)
    \o <<Out("blank", i, <<>>)>>

\* The print calls of the default text branch.
TextOutput(i, r, request, resp) ==
    <<Out("metadata", i, r.Status), Out("blank", i, <<>>),
      Out("request_label", i, <<>>), Out("request", i, request)>>
    \o (IF Truthy(resp)
        THEN <<Out("blank", i, <<>>), Out("response_label", i, <<>>),
               Out("response", i, resp)>>
        ELSE <<>>)
    \o <<Out("blank", i, <<>>)>>

(* ------------------------------------------------------------------ *)
(* Actions                                                             *)
(* ------------------------------------------------------------------ *)

\* An exception no handler catches: the interpreter prints the traceback
\* and the process ends with status 1.
Uncaught(exc) ==
    /\ stderr' = Append(stderr, exc)
    /\ exit_code' = 1
    /\ pc' = "exit"

\* Line 64: an .xml name is XML without a look at the file; otherwise the
\* first 100 bytes are read, which fails for a file that cannot be opened.
DetectFormat ==
    /\ pc = "detect"
    /\ \E xml_name \in BOOLEAN, can_open \in BOOLEAN, xml_head \in BOOLEAN :
          pc' = IF xml_name THEN "parse_xml"
                ELSE IF ~can_open THEN "except"
                ELSE IF xml_head THEN "parse_xml"
                ELSE "parse_csv"
    /\ UNCHANGED <<args, raw_entries, idx, response, decoded_request,
                   log_entries, stdout, stderr, exit_code>>

\* Line 65, parse_xml: the entries of a well-formed file, or an exception
\* (no such file, malformed XML, an item without one of the elements).
ParseXml ==
    /\ pc = "parse_xml"
    /\ \/ \E items \in Files(XmlItems) :
             /\ raw_entries' = Entries(items)
             /\ pc' = "for"
       \/ /\ pc' = "except"
          /\ UNCHANGED raw_entries
    /\ UNCHANGED <<args, idx, response, decoded_request, log_entries,
                   stdout, stderr, exit_code>>

\* Lines 68-69, parse_csv: the rows of the file, or an exception.
ParseCsv ==
    /\ pc = "parse_csv"
    /\ \/ \E items \in Files(CsvItems) :
             /\ raw_entries' = Entries(items)
             /\ pc' = "for"
       \/ /\ pc' = "except"
          /\ UNCHANGED raw_entries
    /\ UNCHANGED <<args, idx, response, decoded_request, log_entries,
                   stdout, stderr, exit_code>>

\* A variant of ParseError that reports the error and goes on.
ParseError_NoExit ==
    /\ pc = "except"
    /\ stderr' = Append(stderr, "Error parsing file")
    /\ pc' = "for"
    /\ UNCHANGED <<args, raw_entries, idx, response, decoded_request,
                   log_entries, stdout, exit_code>>

\* Lines 70-72: report the error and sys.exit(1).
ParseError ==
    /\ pc = "except"
    /\ stderr' = Append(stderr, "Error parsing file")
    /\ exit_code' = 1
    /\ pc' = "exit"
    /\ UNCHANGED <<args, raw_entries, idx, response, decoded_request,
                   log_entries, stdout>>

\* Line 75: the next row, or the end of the loop.
ForRow ==
    /\ pc = "for"
    /\ IF idx < Len(raw_entries)
       THEN idx' = idx + 1 /\ pc' = "status"
       ELSE idx' = idx /\ pc' = "emit"
    /\ UNCHANGED <<args, raw_entries, response, decoded_request,
                   log_entries, stdout, stderr, exit_code>>

\* Lines 77-80.
StatusFilter ==
    /\ pc = "status"
    /\ IF StatusSkips(filter_status_code, row.Status)
       THEN pc' = "for" /\ UNCHANGED response
       ELSE pc' = "response" /\ response' = None
    /\ UNCHANGED <<args, raw_entries, idx, decoded_request, log_entries,
                   stdout, stderr, exit_code>>

\* A variant of DecodeResponse in which an entry without a response gets
\* the empty text and goes through the pattern filters like any other.
DecodeResponse_AlwaysFilter ==
    /\ pc = "response"
    /\ IF HasBody(row.Response)
       THEN LET d == DecodeBody(row.Response) IN
            IF d.exc = ""
            THEN /\ response' = d.text
                 /\ pc' = "include"
                 /\ UNCHANGED <<stderr, exit_code>>
            ELSE Uncaught(d.exc) /\ UNCHANGED response
       ELSE /\ response' = <<>>
            /\ pc' = "include"
            /\ UNCHANGED <<stderr, exit_code>>
    /\ UNCHANGED <<args, raw_entries, idx, decoded_request, log_entries,
                   stdout>>

\* Lines 82-86.
DecodeResponse ==
    /\ pc = "response"
    /\ IF HasBody(row.Response)
       THEN LET d == DecodeBody(row.Response) IN
            IF d.exc = ""
            THEN /\ response' = d.text
                 /\ pc' = "include"
                 /\ UNCHANGED <<stderr, exit_code>>
            ELSE Uncaught(d.exc) /\ UNCHANGED response
       ELSE /\ pc' = "mode"
            /\ UNCHANGED <<response, stderr, exit_code>>
    /\ UNCHANGED <<args, raw_entries, idx, decoded_request, log_entries,
                   stdout>>

\* Lines 89-92.
IncludeFilter ==
    /\ pc = "include"
    /\ LET o == IncludeOutcome(filter_response, response) IN
       IF o = "pass" THEN pc' = "exclude" /\ UNCHANGED <<stderr, exit_code>>
       ELSE IF o = "skip" THEN pc' = "for" /\ UNCHANGED <<stderr, exit_code>>
       ELSE Uncaught(o)
    /\ UNCHANGED <<args, raw_entries, idx, response, decoded_request,
                   log_entries, stdout>>

\* Lines 94-97.
ExcludeFilter ==
    /\ pc = "exclude"
    /\ LET o == ExcludeOutcome(negative_filter_response, response) IN
       IF o = "pass" THEN pc' = "mode" /\ UNCHANGED <<stderr, exit_code>>
       ELSE IF o = "skip" THEN pc' = "for" /\ UNCHANGED <<stderr, exit_code>>
       ELSE Uncaught(o)
    /\ UNCHANGED <<args, raw_entries, idx, response, decoded_request,
                   log_entries, stdout>>

\* A variant of ResponseOnly without the `continue` after the prints.
ResponseOnly_NoContinue ==
    /\ pc = "mode"
    /\ stdout' = IF response_only
                 THEN stdout \o ResponseOnlyOutput(idx, response)
                 ELSE stdout
    /\ pc' = "request"
    /\ UNCHANGED <<args, raw_entries, idx, response, decoded_request,
                   log_entries, stderr, exit_code>>

\* Lines 100-104.
ResponseOnly ==
    /\ pc = "mode"
    /\ IF response_only
       THEN /\ stdout' = stdout \o ResponseOnlyOutput(idx, response)
            /\ pc' = "for"
       ELSE /\ pc' = "request"
            /\ UNCHANGED stdout
    /\ UNCHANGED <<args, raw_entries, idx, response, decoded_request,
                   log_entries, stderr, exit_code>>

\* Lines 107-113.
DecodeRequest ==
    /\ pc = "request"
    /\ IF ~HasBody(row.Request)
       THEN /\ pc' = "for"
            /\ UNCHANGED <<decoded_request, stderr, exit_code>>
       ELSE LET d == DecodeBody(row.Request) IN
            IF d.exc = ""
            THEN /\ decoded_request' = d.text
                 /\ pc' = "collect"
                 /\ UNCHANGED <<stderr, exit_code>>
            ELSE Uncaught(d.exc) /\ UNCHANGED decoded_request
    /\ UNCHANGED <<args, raw_entries, idx, response, log_entries, stdout>>

\* A variant of Collect without the `continue` of JSON mode.
Collect_NoContinue ==
    /\ pc = "collect"
    /\ log_entries' = Append(log_entries, LogEntry(row, decoded_request, response))
    /\ pc' = "print"
    /\ UNCHANGED <<args, raw_entries, idx, response, decoded_request,
                   stdout, stderr, exit_code>>

\* Lines 117-137.
Collect ==
    /\ pc = "collect"
    /\ log_entries' = Append(log_entries, LogEntry(row, decoded_request, response))
    /\ pc' = IF json_output THEN "for" ELSE "print"
    /\ UNCHANGED <<args, raw_entries, idx, response, decoded_request,
                   stdout, stderr, exit_code>>

\* Lines 140-164.
PrintEntry ==
    /\ pc = "print"
    /\ stdout' = stdout \o TextOutput(idx, row, decoded_request, response)
    /\ pc' = "for"
    /\ UNCHANGED <<args, raw_entries, idx, response, decoded_request,
                   log_entries, stderr, exit_code>>

\* Lines 167-168, and the return to main: the process ends with status 0.
EmitJson ==
    /\ pc = "emit"
    /\ stdout' = IF json_output
                 THEN Append(stdout, Out("json", 0, log_entries))
                 ELSE stdout
    /\ exit_code' = 0
    /\ pc' = "exit"
    /\ UNCHANGED <<args, raw_entries, idx, response, decoded_request,
                   log_entries, stderr>>

Next ==
    \/ DetectFormat
    \/ ParseXml
    \/ ParseCsv
    \/ ParseError
    \/ ForRow
    \/ StatusFilter
    \/ DecodeResponse
    \/ IncludeFilter
    \/ ExcludeFilter
    \/ ResponseOnly
    \/ DecodeRequest
    \/ Collect
    \/ PrintEntry
    \/ EmitJson

Spec == Init /\ [][Next]_vars

(* ------------------------------------------------------------------ *)
(* Vocabulary of the claims                                            *)
(* ------------------------------------------------------------------ *)

\* An option counts as supplied when it was given a non-empty value.
Supplied(option) == option # None /\ option # <<>>

JsonMode == json_output /\ ~response_only
Completed == pc = "exit" /\ exit_code = 0
LoadFailed == "Error parsing file" \in {stderr[k] : k \in 1..Len(stderr)}
Aborted(exc) == pc = "exit" /\ stderr = <<exc>>

Rows == 1..Len(raw_entries)

\* Entry i has been through the loop body and the loop has moved on.
Processed(i) ==
    /\ i \in Rows
    /\ \/ i < idx
       \/ i = idx /\ (pc \in {"for", "emit"} \/ Completed)

HasText(raw) == raw # None /\ raw # <<>>

\* The text a raw body decodes to; None for an entry without that body.
TextOf(raw) == IF HasText(raw) THEN DecodeBody(raw).text ELSE None

\* The patterns an option lists.
PatternsOf(option) ==
    LET pieces == Split(option, 1, <<>>) IN
    {Strip(pieces[k]) : k \in 1..Len(pieces)}

Matches(p, text) == ~ReError(p) /\ ReSearch(p, text)

StatusOk(r) ==
    ~Supplied(filter_status_code) \/ r.Status = filter_status_code

IncludeOk(text) ==
    \/ ~Supplied(filter_response)
    \/ \E p \in PatternsOf(filter_response) : Matches(p, text)

ExcludeOk(text) ==
    \/ ~Supplied(negative_filter_response)
    \/ ~\E p \in PatternsOf(negative_filter_response) : Matches(p, text)

\* The entry survives all applicable filters.
Survives(r) ==
    /\ StatusOk(r)
    /\ HasText(r.Response) =>
          IncludeOk(TextOf(r.Response)) /\ ExcludeOk(TextOf(r.Response))

SurvivesWithRequest(r) == Survives(r) /\ HasText(r.Request)

\* Something about entry i was printed or collected.
Printed(i) == \E k \in 1..Len(stdout) : stdout[k].kind # "json" /\ stdout[k].row = i
Collected(i) == \E k \in 1..Len(log_entries) : log_entries[k].ID = i - 1
Rendered(i) == Printed(i) \/ Collected(i)

JsonArrays == SelectSeq(stdout, LAMBDA e : e.kind = "json")

\* The scan of an option's patterns over `text` reaches an invalid pattern:
\* no pattern before it matches.
RECURSIVE ScanFails(_, _, _)
ScanFails(pieces, k, text) ==
    /\ k <= Len(pieces)
    /\ \/ ReError(Strip(pieces[k]))
       \/ ~ReSearch(Strip(pieces[k]), text) /\ ScanFails(pieces, k + 1, text)

HitsInvalid(option, text) ==
    Supplied(option) /\ ScanFails(Split(option, 1, <<>>), 1, text)

HasInvalidPattern(option) ==
    Supplied(option) /\ \E p \in PatternsOf(option) : ReError(p)

\* Entry r is one on which an invalid pattern is evaluated.
EvaluatesInvalid(r) ==
    /\ HasInvalidPattern(filter_response)
          \/ HasInvalidPattern(negative_filter_response)
    /\ StatusOk(r)
    /\ HasText(r.Response)
    /\ IsAscii(r.Response)
    /\ LET text == TextOf(r.Response) IN
       \/ HitsInvalid(filter_response, text)
       \/ /\ IncludeOk(text)
          /\ HitsInvalid(negative_filter_response, text)

\* Entry r is one on which base64.b64decode is given a non-ASCII string.
DecodesNonAscii(r) ==
    /\ StatusOk(r)
    /\ \/ HasText(r.Response) /\ ~IsAscii(r.Response)
       \/ /\ ~response_only
          /\ Survives(r)
          /\ ~EvaluatesInvalid(r)
          /\ HasText(r.Request)
          /\ ~IsAscii(r.Request)

(* ------------------------------------------------------------------ *)
(* Claims                                                              *)
(* ------------------------------------------------------------------ *)

\* The element of the JSON array that entry r gives.
ElementOf(r) ==
    [ID |-> r.ID, StatusCode |-> r.Status,
     DecodedRequest |-> TextOf(r.Request),
     DecodedResponse |-> TextOf(r.Response)]

ElementsOf(entries) == [k \in 1..Len(entries) |-> ElementOf(entries[k])]
IdsOf(entries) == [k \in 1..Len(entries) |-> entries[k].ID]

\* C1 as stated: in JSON mode the emitted array holds exactly one element
\* for each entry that survives the status, include and exclude filters,
\* in source order, none left out and none repeated.
C1_AsStated ==
    (JsonMode /\ Completed) =>
        /\ Len(JsonArrays) = 1
        /\ IdsOf(JsonArrays[1].value)
             = IdsOf(SelectSeq(raw_entries, Survives))

\* C1, amended: in JSON mode the emitted array holds exactly one element
\* for each entry that survives the filters and has a non-empty Request, in
\* source order, each with the entry's metadata and both decoded bodies.
C1_JsonArrayIsSurvivorsWithRequest ==
    (JsonMode /\ Completed) =>
        /\ Len(JsonArrays) = 1
        /\ JsonArrays[1].value
             = ElementsOf(SelectSeq(raw_entries, SurvivesWithRequest))

\* A JSON run over two entries, one filtered out and one emitted, with an
\* include filter in force.
C1_Witness ==
    /\ JsonMode /\ Completed
    /\ Supplied(filter_response)
    /\ Len(raw_entries) = 2
    /\ Len(JsonArrays) = 1
    /\ Len(JsonArrays[1].value) = 1
    /\ ~Survives(raw_entries[1])

\* C2 as stated: whenever an option holds an invalid regular expression
\* the run is aborted with an error and nothing is rendered before the
\* abort.
C2_AsStated ==
    (HasInvalidPattern(filter_response)
        \/ HasInvalidPattern(negative_filter_response)) =>
        /\ stdout = <<>>
        /\ log_entries = <<>>
        /\ ~Completed

\* C2, amended: an invalid regular expression aborts the run (an uncaught
\* re.error, exit status 1) exactly at the first entry on which it is
\* evaluated: an entry that passes the status filter, has response text and
\* on which no earlier pattern ends the scan.  That entry and the ones
\* after it are not rendered and no JSON array is emitted; the entries
\* before it stay rendered, and a run that evaluates no invalid pattern is
\* not aborted by one.
C2_AbortAtFirstEvaluation ==
    /\ \A i \in Rows : i < idx => ~EvaluatesInvalid(raw_entries[i])
    /\ (idx \in Rows /\ EvaluatesInvalid(row)) =>
          \/ pc \in {"status", "response", "include", "exclude"}
          \/ Aborted("re.error")
    /\ Aborted("re.error") =>
          /\ EvaluatesInvalid(row)
          /\ exit_code = 1
          /\ JsonArrays = <<>>
          /\ \A i \in Rows : i >= idx => ~Rendered(i)
          /\ \A i \in Rows :
                (i < idx /\ Survives(raw_entries[i])
                   /\ (response_only \/ HasText(raw_entries[i].Request)))
                => Rendered(i)

\* A run aborted by an invalid pattern on its second entry, after the first
\* entry was printed.
C2_Witness ==
    /\ Aborted("re.error")
    /\ idx = 2
    /\ Printed(1)

\* C3: with a status filter supplied, an entry whose status code is not
\* equal to it is dropped at the first check of the loop body, with or
\* without a response: it is never decoded, matched, printed or collected.
C3_StatusFilterFirst ==
    Supplied(filter_status_code) =>
        /\ pc \in {"response", "include", "exclude", "mode", "request",
                   "collect", "print"}
              => row.Status = filter_status_code
        /\ \A i \in Rows :
              Rendered(i) => raw_entries[i].Status = filter_status_code
        /\ \A k \in 1..Len(log_entries) :
              log_entries[k].StatusCode = filter_status_code

\* A completed text run with a status filter: the first entry, without a
\* response, fails it and the second is printed.
C3_Witness ==
    /\ Supplied(filter_status_code)
    /\ Completed
    /\ Len(raw_entries) = 2
    /\ raw_entries[1].Status # filter_status_code
    /\ ~HasText(raw_entries[1].Response)
    /\ Printed(2)
    /\ ~Rendered(1)

\* C4: an entry with decoded response text gets past the response filters
\* if and only if (no include patterns are supplied or one of them matches
\* somewhere in the text) and (no exclude patterns are supplied or none of
\* them matches); the exclude filter is reached only past the include
\* filter.
C4_ResponseFilters ==
    /\ pc = "exclude" => IncludeOk(response)
    /\ (pc = "mode" /\ HasText(row.Response)) =>
          IncludeOk(response) /\ ExcludeOk(response)
    /\ \A i \in Rows :
          (Processed(i) /\ StatusOk(raw_entries[i])
             /\ HasText(raw_entries[i].Response)
             /\ (response_only \/ HasText(raw_entries[i].Request)))
          => (Rendered(i) <=>
                 /\ IncludeOk(TextOf(raw_entries[i].Response))
                 /\ ExcludeOk(TextOf(raw_entries[i].Response)))

\* A completed run with both filters supplied, in which one entry with
\* response text is rendered and another passes the include filter and is
\* dropped by the exclude filter.
C4_Witness ==
    /\ Completed
    /\ Supplied(filter_response)
    /\ Supplied(negative_filter_response)
    /\ Len(raw_entries) = 2
    /\ Rendered(1)
    /\ HasText(raw_entries[1].Response)
    /\ HasText(raw_entries[2].Response)
    /\ IncludeOk(TextOf(raw_entries[2].Response))
    /\ ~ExcludeOk(TextOf(raw_entries[2].Response))
    /\ ~Rendered(2)

\* What a response-only run prints for the entries in `entries`, the first
\* of which is entry number `i`.
RECURSIVE ResponseOnlyExpected(_, _)
ResponseOnlyExpected(entries, i) ==
    IF entries = <<>> THEN <<>>
    ELSE LET r == Head(entries)
             text == TextOf(r.Response)
         IN (IF ~Survives(r) THEN <<>>
             ELSE (IF HasText(text)
                   THEN <<[kind |-> "response", row |-> i, value |-> text]>>
                   ELSE <<>>)
                  \o <<[kind |-> "blank", row |-> i, value |-> <<>>]>>)
            \o ResponseOnlyExpected(Tail(entries), i + 1)

ProcessedCount == IF idx \in Rows /\ ~Processed(idx) THEN idx - 1 ELSE idx

\* C5: in a run with response_only (with or without json_output), what is
\* printed for the entries is, for each surviving entry in turn, its
\* decoded response text (if any) and a blank separator; no metadata, no
\* request text, and nothing is collected for the JSON array.
C5_ResponseOnly ==
    response_only =>
        /\ log_entries = <<>>
        /\ decoded_request = None
        /\ SelectSeq(stdout, LAMBDA e : e.kind # "json")
             = ResponseOnlyExpected(SubSeq(raw_entries, 1, ProcessedCount), 1)
        /\ \A k \in 1..Len(stdout) :
              stdout[k].kind = "json" => stdout[k].value = <<>>

\* A completed run with response_only and json_output both set, in which a
\* response was printed for an entry that has a request.
C5_Witness ==
    /\ response_only /\ json_output
    /\ Completed
    /\ \E k \in 1..Len(stdout) :
          /\ stdout[k].kind = "response"
          /\ HasText(raw_entries[stdout[k].row].Request)

\* C6: in JSON mode nothing is on standard output until the loop has ended;
\* a run that completes has then printed exactly one JSON array, the empty
\* array when no entry survives.
C6_JsonOnlyAtEnd ==
    JsonMode =>
        /\ ~Completed => stdout = <<>>
        /\ Completed =>
              /\ Len(stdout) = 1
              /\ stdout[1].kind = "json"
              /\ idx = Len(raw_entries)
              /\ (\A i \in Rows : ~Survives(raw_entries[i]))
                    => stdout[1].value = <<>>

\* A completed JSON run over two entries, neither of which survives.
C6_Witness ==
    /\ JsonMode
    /\ Completed
    /\ Len(raw_entries) = 2
    /\ \A i \in Rows : ~Survives(raw_entries[i])
    /\ stdout = <<[kind |-> "json", row |-> 0, value |-> <<>>]>>

\* C7 as stated: a file that cannot be opened or parsed ends the run with
\* exit code 1, a message on stderr and no output; every other run ends
\* with exit code 0.
C7_AsStated ==
    pc = "exit" =>
        IF LoadFailed
        THEN exit_code = 1 /\ stdout = <<>> /\ log_entries = <<>>
        ELSE exit_code = 0

\* C7, amended: a file that cannot be opened or parsed ends the run with
\* exit code 1, a message on stderr and no output in any mode; any other
\* run ends with exit code 0 (also when no entry matches) unless an
\* uncaught exception ends it with exit code 1: an invalid pattern being
\* evaluated, or a non-ASCII raw body being given to the base64 decoder.
C7_ExitCodes ==
    pc = "exit" =>
        IF LoadFailed
        THEN /\ exit_code = 1
             /\ stderr = <<"Error parsing file">>
             /\ stdout = <<>> /\ log_entries = <<>>
             /\ raw_entries = <<>> /\ idx = 0
        ELSE /\ exit_code \in {0, 1}
             /\ exit_code = 0 <=>
                   \A i \in Rows :
                      /\ ~EvaluatesInvalid(raw_entries[i])
                      /\ ~DecodesNonAscii(raw_entries[i])
             /\ exit_code = 0 => stderr = <<>> /\ idx = Len(raw_entries)
             /\ exit_code = 1 => stderr \in {<<"re.error">>, <<"ValueError">>}

\* A run ended by a load failure, in JSON mode.
C7_Witness ==
    /\ pc = "exit"
    /\ LoadFailed
    /\ json_output
    /\ exit_code = 1

\* C8: for an entry without a response (absent or empty) the include and
\* exclude filters are not applied, whatever the patterns: whether it is
\* rendered depends on the status filter alone (and, outside response-only
\* mode, on its having a request).
C8_NoResponseSkipsPatternFilters ==
    /\ pc \in {"include", "exclude"} => HasText(row.Response)
    /\ Aborted("re.error") => HasText(row.Response)
    /\ (pc = "mode" /\ ~HasText(row.Response)) => response = None
    /\ \A i \in Rows :
          (Processed(i) /\ ~HasText(raw_entries[i].Response)) =>
             (Rendered(i) <=>
                 /\ StatusOk(raw_entries[i])
                 /\ (response_only \/ HasText(raw_entries[i].Request)))

\* A completed run with an include filter and an exclude filter supplied,
\* the latter holding an invalid pattern, in which an entry without a
\* response is rendered.
C8_Witness ==
    /\ Completed
    /\ Supplied(filter_response)
    /\ HasInvalidPattern(negative_filter_response)
    /\ \E i \in Rows : ~HasText(raw_entries[i].Response) /\ Rendered(i)

\* Base64 as RFC 4648 defines it: a multiple of four characters of the
\* alphabet, the last one or two of which may be padding.
ValidBase64(s) ==
    /\ Len(s) % 4 = 0
    /\ \A k \in 1..Len(s) :
          \/ B64Value(s[k]) < 64
          \/ s[k] = PAD /\ k >= Len(s) - 1 /\ (k = Len(s) \/ s[k + 1] = PAD)

\* C9 as stated: a non-empty raw request or response that is not valid
\* base64 is kept verbatim as the decoded field, and the failure to decode
\* it never raises and never aborts the run.
C9_AsStated ==
    /\ (pc = "response" /\ HasText(row.Response)
           /\ ~ValidBase64(row.Response))
          => DecodeBody(row.Response).exc = ""
    /\ (pc = "request" /\ HasText(row.Request)
           /\ ~ValidBase64(row.Request))
          => DecodeBody(row.Request).exc = ""
    /\ (pc \in {"include", "exclude"} /\ ~ValidBase64(row.Response))
          => response = row.Response
    /\ (pc = "collect" /\ ~ValidBase64(row.Request))
          => decoded_request = row.Request
    /\ ~Aborted("ValueError")

\* C10: outside response-only mode an entry whose Request is absent or
\* empty is never printed and never collected, even when it passes every
\* filter; every element of the JSON array and every text block comes from
\* an entry with a non-empty Request.
C10_NoRequestNotRendered ==
    ~response_only =>
        /\ \A i \in Rows : Rendered(i) => HasText(raw_entries[i].Request)
        /\ \A k \in 1..Len(log_entries) :
              HasText(raw_entries[log_entries[k].ID + 1].Request)
        /\ \A k \in 1..Len(JsonArrays) :
              \A m \in 1..Len(JsonArrays[k].value) :
                 /\ JsonArrays[k].value[m].DecodedRequest # None
                 /\ HasText(raw_entries[JsonArrays[k].value[m].ID + 1].Request)
        /\ pc \in {"collect", "print"} => HasText(row.Request)

\* A completed run outside response-only mode in which an entry without a
\* request passed every filter and was left out, while another entry was
\* rendered.
C10_Witness ==
    /\ ~response_only
    /\ Completed
    /\ \E i \in Rows :
          /\ ~HasText(raw_entries[i].Request)
          /\ Survives(raw_entries[i])
          /\ HasText(raw_entries[i].Response)
          /\ ~Rendered(i)
    /\ \E i \in Rows : Rendered(i)

====
